---- MODULE Spec2Model ----
(***************************************************************************)
(* A model of src/isdb/SAXS.cpp: the SAXS collective variable (constructor,*)
(* calculate, calculate_cpu, calculate_gpu, setup_midl, bessel_calculate,  *)
(* sort_coordinates, getDeltaPeriodic).                                    *)
(*                                                                         *)
(* Numbers.  The source computes in IEEE doubles; the model computes in    *)
(* exact integers on a lattice chosen so that every quantity the exact     *)
(* path needs is an integer:                                               *)
(*   - lengths are multiples of g = (pi/2)/24.5725 nm, so that the phase   *)
(*     q_vec[k].c_dist of the two hard-coded vectors (line 997, 998) is a  *)
(*     whole number of quarter turns and cos, sin are in {-1, 0, 1};       *)
(*   - wave numbers are multiples of 0.5 nm^-1 (24.5725 -> 49, 1/BF = 20   *)
(*     nm^-1 -> 40);                                                       *)
(*   - the Fermi-Dirac weight 1/(exp((z-z0)/BF)+1) is tabulated in         *)
(*     twentieths (Fermi);                                                 *)
(*   - a non-finite double (NaN, +-inf) is the marker nan = TRUE.          *)
(* Ranks are 0 .. nranks-1, indices are 0-based as in the source.          *)
(*                                                                         *)
(* Spec follows calculate() on every rank for a frame, a box, a number of  *)
(* ranks and a set of keywords chosen at construction. SelSpec follows the *)
(* multipole/exact selection of one object over its evaluations, for atom  *)
(* counts and extents Spec cannot hold as frames.                          *)
(* GeoSpec makes the two calls of getDeltaPeriodic for one pair of         *)
(* positions and one box. CtorSpec runs the constructor once on any list   *)
(* of keywords.                                                            *)
(***************************************************************************)
EXTENDS Integers, Sequences, FiniteSets, TLC

\* ------------------------------------------------------------------ bounds
MaxRanks == 2
MaxAtoms == 2
MaxQ == 3
\* the largest bounding-box extent of the selector specification (SelSpec)
MaxDist == 40
\* the largest coordinate of the geometry specification (GeoSpec)
MaxCoord == 3
\* the periodic images a*Box0 + b*Box1 + c*Box2 compared have |a|, |b|, |c| <= ImgRange
ImgRange == 2
\* the largest QVALUE a keyword list of the constructor runs holds
MaxQValue == 2

\* ------------------------------------------------------- program constants
\* const unsigned numq = 2 (calculate_cpu, calculate_gpu)
HardNumq == 2
\* 24.5725 nm^-1, the component of the hard-coded q_vec, in units of 0.5 nm^-1
QUnit == 49
\* 1/BF = 1/0.05 nm^-1 in units of 0.5 nm^-1
InvBF == 40
\* zmax = BF*log(1/SF-1)+z0 = 1.14534 nm = 17.92 g: zcoord < zmax <=> z < 18
ZCut == 18
\* calculate_gpu: zmax = 0.1*log(1/SF-1)+1.5 = 2.19068 nm = 34.27 g
ZCutGpu == 35
\* denominator of the tabulated Fermi-Dirac weight
WDen == 20
\* floor and ceiling of the truncation order
TruncFloor == 10
TruncCeil == 99

VARIABLES
  nranks,    \* comm.Get_size()
  pos,       \* getPosition(i): the frame, a sequence of <<x, y, z>>
  Box,       \* getPbc().getBox(): three rows
  cfg,       \* the keywords the object was constructed from
  status,    \* "ok" when the constructor returned, "error" when it threw
  obj,       \* per rank: the members q_list, bessel, FF_value, FFf_value
  pc,        \* per rank: position in calculate()
  sum,       \* per rank: the local vector sum of calculate_cpu / calculate_gpu
  deriv,     \* per rank: the vector deriv allocated by calculate()
  comp,      \* per rank: the components q_0 .. q_(numq-1)
  loc,       \* per rank: the locals algorithm, direct, size of calculate_cpu
  started,   \* a calculate() call has begun
  sel,       \* SelSpec: the multipole/exact selection of calculate_cpu
  geo        \* GeoSpec: the arguments and the result of getDeltaPeriodic

vars == <<nranks, pos, Box, cfg, status, obj, pc, sum, deriv, comp, loc, started, sel, geo>>

\* ----------------------------------------------------------------- helpers
Ranks == 0 .. (nranks - 1)
natoms == Len(pos)

RECURSIVE SumFn(_, _)
SumFn(f, S) ==
  IF S = {} THEN 0
  ELSE LET x == CHOOSE y \in S : TRUE IN f[x] + SumFn(f, S \ {x})

RECURSIVE ISqrtFrom(_, _)
ISqrtFrom(n, r) == IF (r + 1) * (r + 1) > n THEN r ELSE ISqrtFrom(n, r + 1)
\* static_cast<unsigned>(sqrt(n))
ISqrt(n) == ISqrtFrom(n, 0)

\* a double: v is the value, nan marks a non-finite value; sym counts the
\* symbolic terms accumulated into it and sc the 4*pi / 8*pi*q scalings
\* applied to it (the values of the multipole path and of
\* the dense-array path are not integers on the lattice and are kept symbolic)
Num(v) == [v |-> v, nan |-> FALSE, sym |-> 0, sc |-> 0]
NaN == [v |-> 0, nan |-> TRUE, sym |-> 0, sc |-> 0]
Zero3 == <<0, 0, 0>>
Vec(v) == [v |-> v, nan |-> FALSE, sym |-> 0, sc |-> 0]
NaNVec == [v |-> Zero3, nan |-> TRUE, sym |-> 0, sc |-> 0]

VAdd(a, b) == <<a[1] + b[1], a[2] + b[2], a[3] + b[3]>>
VSub(a, b) == <<a[1] - b[1], a[2] - b[2], a[3] - b[3]>>
VScale(c, a) == <<c * a[1], c * a[2], c * a[3]>>
Dot(a, b) == a[1] * b[1] + a[2] * b[2] + a[3] * b[3]

\* a + b on doubles and on Vectors
AddNum(a, b) ==
  IF a.nan \/ b.nan THEN [NaN EXCEPT !.sym = a.sym + b.sym]
  ELSE [v |-> a.v + b.v, nan |-> FALSE, sym |-> a.sym + b.sym, sc |-> a.sc]
AddVec(a, b) ==
  IF a.nan \/ b.nan THEN [NaNVec EXCEPT !.sym = a.sym + b.sym]
  ELSE [v |-> VAdd(a.v, b.v), nan |-> FALSE, sym |-> a.sym + b.sym, sc |-> a.sc]

\* cos and sin of n quarter turns
CosQ(n) == CASE n % 4 = 0 -> 1 [] n % 4 = 2 -> -1 [] OTHER -> 0
SinQ(n) == CASE n % 4 = 1 -> 1 [] n % 4 = 3 -> -1 [] OTHER -> 0

\* 20/(exp((z-z0)/BF)+1) for z0 = 0.8, BF = 0.05 and z in units of g,
\* rounded to the nearest integer
Fermi(z) ==
  CASE z <= 9 -> 20
    [] z = 10 -> 19
    [] z = 11 -> 17
    [] z = 12 -> 13
    [] z = 13 -> 7
    [] z = 14 -> 3
    [] z = 15 -> 1
    [] OTHER -> 0

\* ---------------------------------------------------------------- geometry
ZeroBox == <<Zero3, Zero3, Zero3>>
NonFinite == <<>>

\* the quotient d/L + 0.5 cut to an integer toward zero instead of floored
RoundDivTrunc(d, L) ==
  LET n == 2 * d + L
      m == 2 * L
  IN IF (n >= 0) = (m > 0) THEN (IF n >= 0 THEN n \div m ELSE (-n) \div (-m))
     ELSE -(IF n >= 0 THEN n \div (-m) ELSE (-n) \div m)

\* floor(d/L + 0.5) for L # 0
RoundDiv(d, L) ==
  IF L > 0 THEN (2 * d + L) \div (2 * L) ELSE (-(2 * d + L)) \div (-(2 * L))

\* one line of getDeltaPeriodic: diff = diff - Box_c*floor(diff[c]/Box[c][c]+0.5).
\* With Box[c][c] = 0 the quotient is +-inf or NaN and component c of the
\* product Box_c*quotient is 0*inf = NaN: the vector is no longer finite, and
\* stays so.
Reduce(diff, B, c) ==
  IF diff = NonFinite \/ B[c][c] = 0 THEN NonFinite
  ELSE VSub(diff, VScale(RoundDiv(diff[c], B[c][c]), B[c]))

getDeltaPeriodic(atom_coord1, atom_coord2, B) ==
  Reduce(Reduce(Reduce(VSub(atom_coord2, atom_coord1), B, 3), B, 2), B, 1)

\* diff[c]/Box[c][c]+0.5 is an integer: d is L/2 plus a multiple of L
HalfBox(d, L) == (2 * d + L) % (IF L > 0 THEN 2 * L ELSE -2 * L) = 0

\* one of the three quotients of getDeltaPeriodic on the difference diff is an
\* integer, for a box without a zero diagonal entry
Ties(diff, B) ==
  LET d2 == Reduce(diff, B, 3)
      d1 == Reduce(d2, B, 2)
  IN \/ HalfBox(diff[3], B[3][3])
     \/ HalfBox(d2[2], B[2][2])
     \/ HalfBox(d1[1], B[1][1])

\* ------------------------------------------------------------- constructor
\* the hard-coded scattering vectors of calculate_cpu and calculate_gpu
\* ((8.5617,0,0) -> 17 and (5.1333,0,0) -> 10 in units of 0.5 nm^-1)
QVecCpu == << <<QUnit, 0, 0>>, <<QUnit, QUnit, 0>> >>
QVecGpu == << <<17, 0, 0>>, <<10, 0, 0>> >>

\* Vector::modulo()
Modulo(v) == ISqrt(Dot(v, v))

\* FF_tmp[k][i]: the amplitude of atom i at vector k as the external
\* parameter tables resolve it (PARAMETERS, MARTINI, ATOMISTIC); the model
\* takes a table whose entries differ in k and in i
FF_tmp(k, i) == k + i + 1

\* the constructor without the test t_list<=0. (and without q_list[i]==0.)
CtorErrorNoSign(c) ==
  \/ (c.bessel \/ c.force_bessel) /\ c.gpu
  \/ \E i \in 2 .. Len(c.qvalue) : c.qvalue[i] < c.qvalue[i - 1]

\* the constructor with the ordering tested under BESSEL only
CtorErrorBesselOrder(c) ==
  \/ (c.bessel \/ c.force_bessel) /\ c.gpu
  \/ \E i \in 1 .. Len(c.qvalue) : c.qvalue[i] <= 0
  \/ /\ c.bessel \/ c.force_bessel
     /\ \E i \in 2 .. Len(c.qvalue) : c.qvalue[i] < c.qvalue[i - 1]

\* the constructor with the test of line 218 on the BESSEL flag as parsed,
\* FORCE_BESSEL not folded into it
CtorErrorBesselFlag(c) ==
  \/ c.bessel /\ c.gpu
  \/ \E i \in 1 .. Len(c.qvalue) : c.qvalue[i] <= 0
  \/ \E i \in 2 .. Len(c.qvalue) : c.qvalue[i] < c.qvalue[i - 1]

\* The constructor. c holds the keywords: qvalue (QVALUE1..), serial, bessel,
\* force_bessel, gpu, nopbc; size is the number of ATOMS.
CtorError(c) ==
  \/ (c.bessel \/ c.force_bessel) /\ c.gpu
  \/ \E i \in 1 .. Len(c.qvalue) : c.qvalue[i] <= 0
  \/ \E i \in 2 .. Len(c.qvalue) : c.qvalue[i] < c.qvalue[i - 1]

\* q_list[i] = q_list[i]*10.0
CtorQList(c) == [i \in 1 .. Len(c.qvalue) |-> c.qvalue[i] * 10]

CtorTable(c, size) ==
  [k \in 1 .. Len(c.qvalue) |-> [i \in 1 .. size |-> FF_tmp(k - 1, i - 1)]]

SAXS(c, size) ==
  [ q_list    |-> CtorQList(c),
    bessel    |-> c.bessel \/ c.force_bessel,
    FF_value  |-> IF c.gpu THEN <<>> ELSE CtorTable(c, size),
    FFf_value |-> IF c.gpu THEN CtorTable(c, size) ELSE <<>> ]

\* ------------------------------------------------------- sort_coordinates
Indices(n) == [i \in 1 .. n |-> i - 1]

\* sorted_atom: the atoms i with zcoord < z_max, in the order of the loop.
\* zcoord is static_cast<float>(tmp[2]); the coordinates of the lattice are
\* taken to be single-precision values, which the cast leaves as they are.
SortedAtom(p, z_max) == SelectSeq(Indices(Len(p)), LAMBDA i : p[i + 1][3] < z_max)

\* a read of table[k][i]; a row the table does not have is read outside the
\* vector and yields whatever the memory holds (garbage)
TableAt(table, k, i, garbage) ==
  IF k < Len(table) /\ i < Len(table[k + 1]) THEN table[k + 1][i + 1] ELSE garbage

\* sort_coordinates(sorted_posi, FF_value_sorted, sorted_atom, z_max) with
\* numq = q_list.size() rows
sort_coordinates(p, table, numq, z_max, garbage) ==
  LET sa == SortedAtom(p, z_max) IN
  [ sorted_atom     |-> sa,
    sorted_posi     |-> [n \in 1 .. Len(sa) |-> p[sa[n] + 1]],
    FF_value_sorted |-> [k \in 1 .. numq |->
                          [n \in 1 .. Len(sa) |-> TableAt(table, k - 1, sa[n], garbage)]] ]

\* sort_coordinates reads a row of the amplitude table that does not exist
SortReadsOutside(p, table, numq, z_max) ==
  Len(SortedAtom(p, z_max)) > 0 /\ numq > Len(table)

\* --------------------------------------------------------------- setup_midl
Max2(a, b) == IF a > b THEN a ELSE b

\* maxdist: the largest extent of the bounding box of the positions
Extent(p, c) ==
  LET xs == {p[i][c] : i \in 1 .. Len(p)} IN
  (CHOOSE m \in xs : \A x \in xs : x <= m) - (CHOOSE m \in xs : \A x \in xs : m <= x)
MaxDistOf(p) == Max2(Extent(p, 1), Max2(Extent(p, 2), Extent(p, 3)))

\* 5+static_cast<unsigned>(1.2*maxdist*q+0.5*pow(12-log10(maxdist*q),2/3)*pow(maxdist*q,1/3)):
\* 2/3 and 1/3 are integer divisions, both 0, and pow(x,0) is 1 for every x,
\* so the value is 5+floor(1.2*maxdist*q+0.5). With maxdist in units of g and
\* q in units of 0.5 nm^-1, 1.2*maxdist*q = 0.038355*D*q.
TruncRaw(D, q) == 5 + ((38355 * D * q + 500000) \div 1000000)

\* int s = n*n + m; int t = s - 2*order, order = m-n; int x = p2*i + s;
\* int y = p2*i + t: the entries of qRnm bessel_calculate touches for atom i,
\* degree n and m = 0 .. n
BasisSlots(p2, i, n) ==
  {p2 * i + n * n + m : m \in 0 .. n} \cup {p2 * i + n * n + m - 2 * (m - n) : m \in 0 .. n}

\* trunc[k] as the loop of setup_midl leaves it
TruncOf(D, q) == IF TruncRaw(D, q) < TruncFloor THEN TruncFloor ELSE TruncRaw(D, q)

\* the table filled from the other end of q_list
TruncTableRev(D, ql) == [k \in 1 .. Len(ql) |-> TruncOf(D, ql[Len(ql) + 1 - k])]

TruncTable(D, ql) == [k \in 1 .. Len(ql) |-> TruncOf(D, ql[k])]

\* truncation, whose square p2 sizes the basis storage of one atom
Truncation(D, ql) ==
  LET t == TruncRaw(D, ql[Len(ql)]) IN
  IF t < TruncFloor THEN TruncFloor ELSE IF t > TruncCeil THEN TruncCeil ELSE t

\* the comparison with the square root left as a real number:
\* 4*trunc[k] < sqrt(2*size)
CrossCondReal(t, size) == 16 * t * t < 2 * size

\* if(4*trunc[k]<static_cast<unsigned>(sqrt(2*size)) && algorithm<0) algorithm=k
CrossCond(t, size) == 4 * t < ISqrt(2 * size)

\* for(int k=numq-1; k>=0; k--) ... starting from algorithm
RECURSIVE CrossScan(_, _, _, _)
CrossScan(trunc, size, k, algorithm) ==
  IF k < 0 THEN algorithm
  ELSE CrossScan(trunc, size, k - 1,
                 IF CrossCond(trunc[k + 1], size) /\ algorithm < 0 THEN k ELSE algorithm)

\* setup_midl with the override applied whatever FORCE_BESSEL says
setup_midl_forced(trunc, size, force_bessel) == Len(trunc) - 1

\* the value of algorithm when setup_midl returns
setup_midl(trunc, size, force_bessel) ==
  IF force_bessel THEN Len(trunc) - 1
  ELSE CrossScan(trunc, size, Len(trunc) - 1, -1)

\* --------------------------------------------- calculate_cpu: exact path
\* the atoms i = rank, rank+stride, ... of the outer loops
Rows(rank, stride, size) == {i \in 0 .. (size - 1) : i >= rank /\ (i - rank) % stride = 0}
\* the atoms j = rank .. size-1 of the inner loops
Cols(rank, size) == rank .. (size - 1)

\* c_dist[i*size+j] = getDeltaPeriodic(posi, sorted_posi[j])
CDist(S, B, i, j) == getDeltaPeriodic(S.sorted_posi[i + 1], S.sorted_posi[j + 1], B)

\* qdist = dotProduct(q_vec[k], c_distances), in quarter turns
QDist(S, B, k, i, j) == Dot(QVecCpu[k + 1], CDist(S, B, i, j)) \div QUnit

\* FFF = FF*FF_value_sorted[k][j]
FFF(S, k, i, j) == S.FF_value_sorted[k + 1][i + 1] * S.FF_value_sorted[k + 1][j + 1]

\* 1/(fdfactori+1.0)/(fdfactorj+1.0), in units of 1/(WDen*WDen)
FdPair(S, i, j) == Fermi(S.sorted_posi[i + 1][3]) * Fermi(S.sorted_posi[j + 1][3])

\* fdtcq and fdtsq, in units of 1/(WDen*WDen)
Fdtcq(S, B, k, i, j) == FFF(S, k, i, j) * CosQ(QDist(S, B, k, i, j)) * FdPair(S, i, j)
Fdtsq(S, B, k, i, j) == FFF(S, k, i, j) * SinQ(QDist(S, B, k, i, j)) * FdPair(S, i, j)

\* dd = tmp = -1.*q_vec[k]*fdtsq, in units of 1/(WDen*WDen*WDen)
Dd(S, B, k, i, j) == VScale(-1 * WDen * Fdtsq(S, B, k, i, j), QVecCpu[k + 1])

\* a sum of Vectors
RECURSIVE SumVec(_, _)
SumVec(f, T) ==
  IF T = {} THEN Zero3
  ELSE LET x == CHOOSE y \in T : TRUE IN VAdd(f[x], SumVec(f, T \ {x}))

\* dsum of row i
Dsum(S, B, k, i, rank) ==
  LET C == Cols(rank, Len(S.sorted_atom)) IN SumVec([j \in C |-> Dd(S, B, k, i, j)], C)

\* 2.*dfdsum*fdfactori/(fdfactori+1.0), dfdsum the sum over j of
\* Vector(0,0,-1.*fdtcq/BF); fdfactori/(fdfactori+1.0) is 1 - 1/(fdfactori+1.0)
Taper(S, B, k, i, rank) ==
  LET C == Cols(rank, Len(S.sorted_atom))
      t == SumFn([j \in C |-> Fdtcq(S, B, k, i, j)], C)
  IN <<0, 0, -2 * InvBF * t * (WDen - Fermi(S.sorted_posi[i + 1][3]))>>

\* the pairs (i, j) one rank accumulates
Pairs(rank, stride, size) == Rows(rank, stride, size) \X Cols(rank, size)

\* a zero diagonal entry of the box makes every displacement non-finite
Singular(B) == \E c \in 1 .. 3 : B[c][c] = 0

\* sum[k] of one rank after the loops
LocalSum(S, B, k, rank, stride) ==
  LET P == Pairs(rank, stride, Len(S.sorted_atom)) IN
  IF P = {} THEN Num(0)
  ELSE IF Singular(B) THEN NaN
  ELSE Num(SumFn([p \in P |-> Fdtcq(S, B, k, p[1], p[2])], P))

\* what the loops add to deriv[kdx+a] on one rank, a an atom of the frame:
\* deriv[kdx+jatom] += dd for every pair with sorted_atom[j] = a, and
\* deriv[kdx+iatom] -= dsum, deriv[kdx+iatom] += taper for the row with
\* sorted_atom[i] = a
LocalDeriv(S, B, k, a, rank, stride) ==
  LET size == Len(S.sorted_atom)
      P    == {p \in Pairs(rank, stride, size) : S.sorted_atom[p[2] + 1] = a}
      R    == {i \in Rows(rank, stride, size) : S.sorted_atom[i + 1] = a}
  IN IF P = {} /\ R = {} THEN Vec(Zero3)
     ELSE IF Singular(B) THEN NaNVec
     ELSE Vec(VAdd(SumVec([p \in P |-> Dd(S, B, k, p[1], p[2])], P),
                   SumVec([i \in R |-> VSub(Taper(S, B, k, i, rank),
                                            Dsum(S, B, k, i, rank))], R)))

\* ------------------------------------------------------------ the inputs
\* the lattice sites an atom can sit on: one below z0 = 0.8, one above it,
\* one between the zmax of calculate_cpu and that of calculate_gpu, one beyond
\* both
Sites == { <<0, 0, 12>>, <<1, 1, 13>>, <<0, 1, 20>>, <<2, 0, 35>> }
Frames == UNION { [1 .. n -> Sites] : n \in 0 .. MaxAtoms }
Boxes == { ZeroBox, << <<3, 0, 0>>, <<0, 3, 0>>, <<0, 0, 24>> >> }

\* QVALUE1 .. QVALUEn, ascending and positive
QValues(n) == [k \in 1 .. n |-> 3 * k - 1]
NoFlags == [serial |-> FALSE, bessel |-> FALSE, force_bessel |-> FALSE,
            gpu |-> FALSE, nopbc |-> FALSE]
FlagSets == { NoFlags,
              [NoFlags EXCEPT !.serial = TRUE],
              [NoFlags EXCEPT !.nopbc = TRUE],
              [NoFlags EXCEPT !.bessel = TRUE],
              [NoFlags EXCEPT !.force_bessel = TRUE],
              [NoFlags EXCEPT !.gpu = TRUE] }
Configs == { [qvalue |-> QValues(n), serial |-> f.serial, bessel |-> f.bessel,
              force_bessel |-> f.force_bessel, gpu |-> f.gpu, nopbc |-> f.nopbc] :
             n \in 1 .. MaxQ, f \in FlagSets }

\* what a read outside a vector can yield
Garbage == {0, 1}

\* ------------------------------------------------------------------- state
ZeroArr(n) == [i \in 0 .. (n - 1) |-> Vec(Zero3)]
ZeroSum == [k \in 1 .. HardNumq |-> Num(0)]
NoComp(n) == [k \in 0 .. (n - 1) |-> [val |-> Num(0), fresh |-> FALSE]]
NoLoc == [algorithm |-> -1, direct |-> TRUE, size |-> 0, sorted_atom |-> <<>>, dd |-> <<>>,
          trunc |-> <<>>, reduced |-> 0]
NoEval == [ran |-> FALSE, trunc |-> <<>>, algorithm |-> -1, direct |-> TRUE,
           multipole |-> {}, exact |-> {}, p2 |-> 0]
NoGeo == [called |-> FALSE, atom_coord1 |-> Zero3, atom_coord2 |-> Zero3,
          Box |-> ZeroBox, diff |-> Zero3, back |-> Zero3]
NoSel == [size |-> 0, bessel |-> FALSE, force_bessel |-> FALSE,
          first |-> NoEval, last |-> NoEval, evaluated |-> FALSE,
          kept |-> 0, scaled |-> <<>>, sumscaled |-> {}]

Init ==
  /\ nranks \in 1 .. MaxRanks
  /\ pos \in Frames
  /\ Box \in Boxes
  /\ cfg \in Configs
  /\ status = IF CtorError(cfg) THEN "error" ELSE "ok"
  /\ obj = [r \in Ranks |-> SAXS(cfg, natoms)]
  /\ pc = [r \in Ranks |-> "idle"]
  /\ sum = [r \in Ranks |-> ZeroSum]
  /\ deriv = [r \in Ranks |-> ZeroArr(0)]
  /\ comp = [r \in Ranks |-> NoComp(Len(cfg.qvalue))]
  /\ loc = [r \in Ranks |-> NoLoc]
  /\ started = FALSE
  /\ sel = NoSel
  /\ geo = NoGeo

\* calculate() up to the call of calculate_cpu / calculate_gpu, on every rank:
\* vector<Vector> deriv(numq*size) with numq = q_list.size()
Calculate ==
  /\ status = "ok"
  /\ \A r \in Ranks : pc[r] = "idle"
  /\ started' = TRUE
  /\ pc' = [r \in Ranks |-> "local"]
  /\ deriv' = [r \in Ranks |-> ZeroArr(Len(obj[r].q_list) * natoms)]
  /\ sum' = [r \in Ranks |-> ZeroSum]
  /\ comp' = [r \in Ranks |-> [k \in DOMAIN comp[r] |-> [comp[r][k] EXCEPT !.fresh = FALSE]]]
  /\ loc' = [r \in Ranks |-> NoLoc]
  /\ UNCHANGED <<nranks, pos, Box, cfg, status, obj, sel, geo>>

\* ------------------------------------------------------------ calculate_cpu
\* stride = comm.Get_size(), rank = comm.Get_rank(); if(serial) stride=1, rank=0
MyRank(r) == IF cfg.serial THEN 0 ELSE r
MyStride == IF cfg.serial THEN 1 ELSE nranks

\* q_list.resize(numq); q_list[k] = q_vec[k].modulo()
CpuQList == [k \in 1 .. HardNumq |-> Modulo(QVecCpu[k])]

ArrLen(a) == Cardinality(DOMAIN a)

\* bessel_calculate on one rank, symbolically: sum[k] takes one term for each
\* degree n = rank, rank+stride, .. < trunc[k], and deriv[kN+i] one term for
\* each atom i = rank, rank+stride, .. < size
BesselSum(trunc, k, rank, stride) ==
  [Num(0) EXCEPT !.sym = Cardinality(Rows(rank, stride, trunc[k + 1]))]
BesselDeriv(a, rank, stride) ==
  IF a \in Rows(rank, stride, natoms) THEN [Vec(Zero3) EXCEPT !.sym = 1] ELSE Vec(Zero3)

\* the atoms whose entry deriv[kdx+a] the exact loops of one rank write
ExactWrites(sorted_atom, rank, stride) ==
  LET size == Len(sorted_atom) IN
  IF Rows(rank, stride, size) = {} THEN {}
  ELSE {sorted_atom[j + 1] : j \in Cols(rank, size)}
       \cup {sorted_atom[i + 1] : i \in Rows(rank, stride, size)}

\* the vector number left out of the slot
DerivSlotFlat(k, natom, atom) == k + atom

\* kdx = k*natom; deriv[kdx+jatom], deriv[kdx+iatom]
DerivSlot(k, natom, atom) == k * natom + atom

\* c_dist[i*size+j], m_dist[i*size+j]
CDistCell(i, j, size) == i * size + j

\* the cells of c_dist and of m_dist the iteration i of the parallel loop of
\* line 1086 writes: one for every j of its inner loop
CDistWrites(i, rank, size) == {CDistCell(i, j, size) : j \in Cols(rank, size)}

\* the cells of deriv the iteration k of the parallel loop of line 1096 writes
DerivWrites(k, sorted_atom, rank, stride, natom) ==
  {DerivSlot(k, natom, a) : a \in ExactWrites(sorted_atom, rank, stride)}

\* the cells of sum the iteration k of the parallel loop of line 1096 writes:
\* sum[k], when one of its inner loops runs
SumWrites(k, sorted_atom, rank, stride) ==
  IF ExactWrites(sorted_atom, rank, stride) = {} THEN {} ELSE {k}

\* if(bessel) for(k=0; k<=algorithm; k++) { const unsigned kN = k*size; ...
\*   for(i=0; i<size; i++) deriv[kN+i] *= 8.*M_PI*q_list[k]; }
\* for every k of the outer loop, the first entry kN of deriv that is scaled
\* and the number of entries scaled from there on; size is the local of
\* calculate_cpu as it stands at line 1146
ScaledRange(bessel, algorithm, size) ==
  [k \in (IF bessel THEN 0 .. algorithm ELSE {}) |-> [from |-> k * size, count |-> size]]

\* the entries of deriv that are scaled
ScaledSlots(bessel, algorithm, size) ==
  LET R == ScaledRange(bessel, algorithm, size) IN
  UNION { {R[k].from + i : i \in 0 .. (R[k].count - 1)} : k \in DOMAIN R }

\* sum[k] *= 4.*M_PI: the entries of sum that are scaled
ScaledSums(bessel, algorithm) == IF bessel THEN 0 .. algorithm ELSE {}

\* int algorithm=-1; bool direct = true;
\* if(bessel) { setup_midl(r_polar, qRnm, algorithm, p2, trunc);
\*              if(algorithm>=0) bessel_calculate(...);
\*              if(algorithm+1>=numq) direct=false;
\*              if(algorithm==-1) bessel=false; }
\* the locals algorithm and direct and the member bessel after these lines
Select(bessel, force_bessel, trunc, size) ==
  LET algorithm == IF bessel THEN setup_midl(trunc, size, force_bessel) ELSE -1 IN
  [ algorithm |-> algorithm,
    direct    |-> ~(bessel /\ algorithm + 1 >= HardNumq),
    bessel    |-> bessel /\ algorithm # -1 ]

\* the table trunc of the frame (maxdist of an empty frame is read from
\* getPosition(0), which does not exist)
\* the table taken from the atoms i = 0, stride, 2*stride, .. only
CpuTruncStrided ==
  LET mine == {i \in 1 .. natoms : (i - 1) % MyStride = 0} IN
  TruncTable(IF natoms = 0 THEN 0
             ELSE MaxDistOf([n \in 1 .. Cardinality(mine) |-> pos[(n - 1) * MyStride + 1]]),
             CpuQList)

CpuTrunc == TruncTable(IF natoms = 0 THEN 0 ELSE MaxDistOf(pos), CpuQList)
CpuAlgorithm(r) == Select(obj[r].bessel, cfg.force_bessel, CpuTrunc, natoms).algorithm
CpuDirect(r) == Select(obj[r].bessel, cfg.force_bessel, CpuTrunc, natoms).direct

\* calculate_cpu of rank r reads a row FF_value does not have or writes an
\* entry deriv does not have
CpuIndexUb(r) ==
  LET rank       == MyRank(r)
      stride     == MyStride
      algorithm  == CpuAlgorithm(r)
      written(k) == IF k <= algorithm THEN Rows(rank, stride, natoms)
                    ELSE IF CpuDirect(r)
                    THEN ExactWrites(SortedAtom(pos, ZCut), rank, stride) ELSE {}
  IN \/ CpuDirect(r) /\ SortReadsOutside(pos, obj[r].FF_value, HardNumq, ZCut)
     \/ \E k \in 0 .. (HardNumq - 1) :
          /\ written(k) # {}
          /\ \/ k <= algorithm /\ k >= Len(obj[r].FF_value)
             \/ \E a \in written(k) : DerivSlot(k, natoms, a) >= ArrLen(deriv[r])

\* calculate_cpu of rank r reads or writes outside a vector: getPosition(0) of
\* an empty atom list, a row FF_value does not have, an entry deriv does not
\* have, a degree the basis storage of an atom does not have
CpuUb(r) ==
  LET algorithm  == CpuAlgorithm(r)
  IN \/ obj[r].bessel /\ natoms = 0
     \/ CpuIndexUb(r)
     \/ \E k \in 0 .. algorithm :
          natoms > 0 /\ CpuTrunc[k + 1] > Truncation(MaxDistOf(pos), CpuQList)

\* calculate_cpu of rank r from its first line to the comm.Sum: the locals and
\* members as they stand there. garbage is what a read outside FF_value yields.
CpuStage(r, garbage) ==
  LET rank      == MyRank(r)
      stride    == MyStride
      algorithm == CpuAlgorithm(r)
      direct    == CpuDirect(r)
      S         == sort_coordinates(pos, obj[r].FF_value, HardNumq, ZCut, garbage)
  IN
  [ q_list    |-> CpuQList,
    bessel    |-> Select(obj[r].bessel, cfg.force_bessel, CpuTrunc, natoms).bessel,
    algorithm |-> algorithm,
    direct    |-> direct,
    trunc     |-> IF obj[r].bessel THEN CpuTrunc ELSE <<>>,
    size      |-> IF direct THEN Len(S.sorted_atom) ELSE natoms,
    sum       |-> [k \in 1 .. HardNumq |->
                    IF k - 1 <= algorithm THEN BesselSum(CpuTrunc, k - 1, rank, stride)
                    ELSE IF direct THEN LocalSum(S, Box, k - 1, rank, stride)
                    ELSE Num(0)],
    deriv     |-> [idx \in DOMAIN deriv[r] |->
                    LET k == idx \div natoms
                        a == idx % natoms
                    IN IF k >= HardNumq THEN deriv[r][idx]
                       ELSE IF k <= algorithm THEN BesselDeriv(a, rank, stride)
                       ELSE IF direct THEN LocalDeriv(S, Box, k, a, rank, stride)
                       ELSE deriv[r][idx]] ]

\* the loops followed by the output at once, for every setting of SERIAL
AfterLocalNoSum == "publish"

\* if(!serial) { comm.Sum(...); comm.Sum(...); }: where a rank goes after its
\* loops
AfterLocal == IF cfg.serial THEN "publish" ELSE "reduce"

\* calculate_cpu, lines 958-1138, on rank r. After a read or write outside a
\* vector the process either dies or goes on with what the memory held.
CpuLocal(r) ==
  /\ pc[r] = "local"
  /\ ~cfg.gpu
  /\ \E ub \in {CpuUb(r)} :
     \E garbage \in IF ub THEN Garbage ELSE {0}, dies \in IF ub THEN BOOLEAN ELSE {FALSE} :
     \E st \in {CpuStage(r, garbage)} :
       /\ obj' = [obj EXCEPT ![r].q_list = st.q_list, ![r].bessel = st.bessel]
       /\ IF dies
          THEN /\ pc' = [pc EXCEPT ![r] = "aborted"]
               /\ UNCHANGED <<sum, deriv, loc>>
          ELSE /\ pc' = [pc EXCEPT ![r] = AfterLocal]
               /\ sum' = [sum EXCEPT ![r] = st.sum]
               /\ deriv' = [deriv EXCEPT ![r] = st.deriv]
               /\ loc' = [loc EXCEPT ![r] = [NoLoc EXCEPT !.algorithm = st.algorithm,
                                             !.direct = st.direct, !.size = st.size,
                                             !.trunc = st.trunc]]
  /\ UNCHANGED <<nranks, pos, Box, cfg, status, comp, started, sel, geo>>

\* if(!serial) { comm.Sum(&deriv[0][0], 3*deriv.size()); comm.Sum(&sum[0], numq); }
\* the all-reduce returns on every rank once every rank has entered it
RECURSIVE FoldNum(_, _)
FoldNum(f, T) ==
  IF T = {} THEN Num(0)
  ELSE LET x == CHOOSE y \in T : TRUE IN AddNum(f[x], FoldNum(f, T \ {x}))
RECURSIVE FoldVec(_, _)
FoldVec(f, T) ==
  IF T = {} THEN Vec(Zero3)
  ELSE LET x == CHOOSE y \in T : TRUE IN AddVec(f[x], FoldVec(f, T \ {x}))

AllReduce ==
  /\ \A r \in Ranks : pc[r] = "reduce"
  /\ sum' = [r \in Ranks |-> [k \in 1 .. HardNumq |->
               FoldNum([q \in Ranks |-> sum[q][k]], Ranks)]]
  /\ deriv' = [r \in Ranks |-> [idx \in DOMAIN deriv[r] |->
               FoldVec([q \in Ranks |-> deriv[q][idx]], Ranks)]]
  /\ pc' = [r \in Ranks |-> "publish"]
  /\ loc' = [r \in Ranks |-> [loc[r] EXCEPT !.reduced = @ + 1]]
  /\ UNCHANGED <<nranks, pos, Box, cfg, status, obj, comp, started, sel, geo>>

\* calculate_cpu, lines 1146-1170, and the rest of calculate() on rank r:
\* the multipole vectors k <= algorithm are scaled and set, then the exact
\* vectors are set. getPntrToComponent("q_"+num) throws for a component the
\* constructor did not add.
CpuPublish(r) ==
  LET algorithm == loc[r].algorithm
      scaled(k) == obj[r].bessel /\ k <= algorithm
      tried     == {k \in 0 .. (HardNumq - 1) : scaled(k) \/ (loc[r].direct /\ k > algorithm)}
      missing   == {k \in tried : k \notin DOMAIN comp[r]}
      done      == {k \in tried : \A m \in missing : k < m}
      newsum    == [k \in 1 .. HardNumq |->
                     IF scaled(k - 1) /\ (k - 1) \in done
                     THEN [sum[r][k] EXCEPT !.sc = @ + 1] ELSE sum[r][k]]
      hit(idx)  == /\ idx \in ScaledSlots(obj[r].bessel, algorithm, loc[r].size)
                   /\ \E k \in done : scaled(k) /\ idx \div Max2(loc[r].size, 1) = k
  IN
  /\ pc[r] = "publish"
  /\ ~cfg.gpu
  /\ sum' = [sum EXCEPT ![r] = newsum]
  /\ deriv' = [deriv EXCEPT ![r] = [idx \in DOMAIN deriv[r] |->
                 IF hit(idx) THEN [deriv[r][idx] EXCEPT !.sc = @ + 1] ELSE deriv[r][idx]]]
  /\ comp' = [comp EXCEPT ![r] = [k \in DOMAIN comp[r] |->
                 IF k \in done THEN [val |-> newsum[k + 1], fresh |-> TRUE]
                 ELSE comp[r][k]]]
  /\ pc' = [pc EXCEPT ![r] = IF missing = {} THEN "idle" ELSE "aborted"]
  /\ UNCHANGED <<nranks, pos, Box, cfg, status, obj, loc, started, sel, geo>>

\* ------------------------------------------------------------ calculate_gpu
\* q_list.resize(numq); q_list[k] = q_vec[k].modulo()
GpuQList == [k \in 1 .. HardNumq |-> Modulo(QVecGpu[k])]

\* FFf_value.resize(numq, vector<float>(size)): rows beyond numq are dropped,
\* missing rows are added as size zeros, the rows kept are not touched
Resize(table, numq, size) ==
  [k \in 1 .. numq |-> IF k <= Len(table) THEN table[k] ELSE [i \in 1 .. size |-> 0]]

\* a value of the dense-array computation, kept symbolic: slot names the entry
\* of dd (or of sum) it is read from
Dense(slot) == [Num(0) EXCEPT !.sym = slot + 1]
DenseVec(slot) == [Vec(Zero3) EXCEPT !.sym = slot + 1]

\* calculate_gpu, lines 393-908, on rank r: every rank overwrites q_list and
\* allocates sum and dd; rank 0 alone filters the atoms, resizes FFf_value and
\* dd and runs the dense-array computation
GpuLocal(r) ==
  /\ pc[r] = "local"
  /\ cfg.gpu
  /\ \E ub \in {r = 0 /\ SortReadsOutside(pos, obj[r].FFf_value, HardNumq, ZCutGpu)} :
     \E garbage \in IF ub THEN Garbage ELSE {0}, dies \in IF ub THEN BOOLEAN ELSE {FALSE} :
     \E S \in {sort_coordinates(pos, obj[r].FFf_value, HardNumq, ZCutGpu, garbage)} :
       LET size == IF r = 0 THEN Len(S.sorted_atom) ELSE natoms IN
       /\ IF dies
          THEN /\ pc' = [pc EXCEPT ![r] = "aborted"]
               /\ obj' = [obj EXCEPT ![r].q_list = GpuQList]
               /\ UNCHANGED <<sum, loc>>
          ELSE /\ pc' = [pc EXCEPT ![r] = "bcast"]
               /\ obj' = [obj EXCEPT ![r].q_list = GpuQList,
                                     ![r].FFf_value = IF r = 0
                                                      THEN Resize(@, HardNumq, size)
                                                      ELSE @]
               /\ sum' = [sum EXCEPT ![r] = IF r = 0
                                            THEN [k \in 1 .. HardNumq |-> Dense(k - 1)]
                                            ELSE ZeroSum]
               /\ loc' = [loc EXCEPT ![r] =
                            [NoLoc EXCEPT !.size = size,
                                          !.sorted_atom = IF r = 0 THEN S.sorted_atom ELSE <<>>,
                                          !.dd = [n \in 1 .. (size * HardNumq) |->
                                                   IF r = 0 THEN DenseVec(n - 1) ELSE Vec(Zero3)]]]
  /\ UNCHANGED <<nranks, pos, Box, cfg, status, deriv, comp, started, sel, geo>>

\* comm.Bcast(dd, 0); comm.Bcast(sum, 0): every rank passes its own dd.size()
\* as the count. Counts that differ from the root's are an erroneous call: the
\* ranks die, or the receiver takes as many entries as fit.
Bcast ==
  /\ \A r \in Ranks : pc[r] = "bcast"
  /\ \E dies \in BOOLEAN :
       LET mismatch == \E r \in Ranks : Len(loc[r].dd) # Len(loc[0].dd) IN
       /\ dies => mismatch
       /\ IF dies
          THEN /\ pc' = [r \in Ranks |-> "aborted"]
               /\ UNCHANGED <<sum, loc>>
          ELSE /\ pc' = [r \in Ranks |-> "publish"]
               /\ sum' = [r \in Ranks |-> sum[0]]
               /\ loc' = [r \in Ranks |-> [loc[r] EXCEPT !.dd =
                            [n \in 1 .. Len(loc[r].dd) |->
                              IF n <= Len(loc[0].dd) THEN loc[0].dd[n] ELSE loc[r].dd[n]]]]
  /\ UNCHANGED <<nranks, pos, Box, cfg, status, obj, deriv, comp, started, sel, geo>>

\* calculate_gpu, lines 913-925, on rank r: q_k is set to sum[k] and
\* deriv[k*natom+sorted_atom[i]] to the entry i of vector k of dd, i < size.
\* On a rank other than 0 sorted_atom is empty and size is the atom count: the
\* read of sorted_atom[i] is outside the vector and yields garbage.
GpuPublish(r) ==
  /\ pc[r] = "publish"
  /\ cfg.gpu
  /\ \E ub \in {loc[r].size > Len(loc[r].sorted_atom)} :
     \E g \in IF ub THEN 0 .. (natoms - 1) ELSE {0}, dies \in IF ub THEN BOOLEAN ELSE {FALSE} :
       LET size     == loc[r].size
           iatom(i) == IF i < Len(loc[r].sorted_atom) THEN loc[r].sorted_atom[i + 1] ELSE g
           missing  == {k \in 0 .. (HardNumq - 1) : k \notin DOMAIN comp[r]}
           done     == {k \in 0 .. (HardNumq - 1) : \A m \in missing : k < m}
           src(idx) == {k * size + i : k \in done, i \in 0 .. (size - 1)}
                         \cap {n \in 0 .. (size * HardNumq - 1) :
                                 idx = (n \div size) * natoms + iatom(n % size)}
       IN
       /\ IF dies
          THEN /\ pc' = [pc EXCEPT ![r] = "aborted"]
               /\ UNCHANGED <<deriv, comp>>
          ELSE /\ pc' = [pc EXCEPT ![r] = IF missing = {} THEN "idle" ELSE "aborted"]
               /\ comp' = [comp EXCEPT ![r] = [k \in DOMAIN comp[r] |->
                             IF k \in done THEN [val |-> sum[r][k + 1], fresh |-> TRUE]
                             ELSE comp[r][k]]]
               /\ deriv' = [deriv EXCEPT ![r] = [idx \in DOMAIN deriv[r] |->
                             IF src(idx) = {} THEN deriv[r][idx]
                             ELSE loc[r].dd[(CHOOSE n \in src(idx) :
                                               \A m \in src(idx) : m <= n) + 1]]]
  /\ UNCHANGED <<nranks, pos, Box, cfg, status, obj, sum, loc, started, sel, geo>>

\* ------------------------------------------- the multipole/exact selection
\* SelSpec follows one object through its evaluations and keeps of each only
\* what lines 1011-1018 of calculate_cpu and setup_midl decide: the table
\* trunc, the crossover index algorithm, and which vectors go to
\* bessel_calculate and which to the exact loops. The atom count is fixed by
\* the ATOMS keyword; the extent maxdist is the frame's.
SelSizes == {2, 801, 841, 1300}

\* the number of atoms of the frames that sort_coordinates keeps (z below
\* zmax): all of them, or all but one
SelKept(size) == {size, size - 1}

\* one evaluation of an object whose member bessel is b
Evaluation(b, force_bessel, size, maxdist) ==
  LET trunc == TruncTable(maxdist, CpuQList)
      s     == Select(b, force_bessel, trunc, size)
  IN [ ran       |-> b,
       trunc     |-> trunc,
       algorithm |-> s.algorithm,
       direct    |-> s.direct,
       multipole |-> {k \in 0 .. (HardNumq - 1) : k <= s.algorithm},
       exact     |-> {k \in 0 .. (HardNumq - 1) : s.direct /\ k > s.algorithm},
       p2        |-> IF b THEN Truncation(maxdist, CpuQList) * Truncation(maxdist, CpuQList)
                     ELSE 0 ]

SelInit ==
  /\ nranks = 1
  /\ pos = <<>>
  /\ Box = ZeroBox
  /\ cfg \in {c \in Configs : ~c.gpu /\ ~c.serial /\ ~c.nopbc /\ Len(c.qvalue) = HardNumq}
  /\ status = "ok"
  /\ obj = [r \in Ranks |-> SAXS(cfg, 0)]
  /\ pc = [r \in Ranks |-> "idle"]
  /\ sum = [r \in Ranks |-> ZeroSum]
  /\ deriv = [r \in Ranks |-> ZeroArr(0)]
  /\ comp = [r \in Ranks |-> NoComp(Len(cfg.qvalue))]
  /\ loc = [r \in Ranks |-> NoLoc]
  /\ started = FALSE
  /\ \E size \in SelSizes : \E kept \in SelKept(size) :
       sel = [NoSel EXCEPT !.size = size,
                           !.kept = kept,
                           !.bessel = cfg.bessel \/ cfg.force_bessel,
                           !.force_bessel = cfg.force_bessel]
  /\ geo = NoGeo

\* calculate_cpu, lines 1011-1018, on a frame of extent maxdist, and the
\* scaling of lines 1146-1156 with bessel and size as the evaluation leaves
\* them: bessel is set iff setup_midl ran and algorithm is not -1, size is
\* sorted_atom.size() after the exact loops (line 1082)
SelEvaluate ==
  /\ \E maxdist \in 0 .. MaxDist :
       \E e \in {Evaluation(sel.bessel, sel.force_bessel, sel.size, maxdist)} :
         sel' = [sel EXCEPT !.bessel = Select(sel.bessel, sel.force_bessel,
                                              e.trunc, sel.size).bessel,
                            !.first = IF sel.evaluated THEN @ ELSE e,
                            !.last = e,
                            !.evaluated = TRUE,
                            !.scaled = ScaledRange(e.algorithm # -1, e.algorithm,
                                                   IF e.direct THEN sel.kept ELSE sel.size),
                            !.sumscaled = ScaledSums(e.algorithm # -1, e.algorithm)]
  /\ UNCHANGED <<nranks, pos, Box, cfg, status, obj, pc, sum, deriv, comp, loc, started, geo>>

SelNext == SelEvaluate

SelSpec == SelInit /\ [][SelNext]_vars

\* --------------------------------------------------------- getDeltaPeriodic
\* GeoSpec draws two positions of a lattice and a box that is zero, singular,
\* orthorhombic or triclinic, and calls getDeltaPeriodic on them.
GeoPoints == (-MaxCoord .. MaxCoord) \X (-MaxCoord .. MaxCoord) \X (-MaxCoord .. MaxCoord)
GeoOrigins == { Zero3, <<1, 2, 0>> }
GeoBoxes == { ZeroBox,
              << <<3, 0, 0>>, <<0, 0, 0>>, <<0, 0, 4>> >>,
              << <<4, 0, 0>>, <<0, 4, 0>>, <<0, 0, 4>> >>,
              << <<3, 0, 0>>, <<0, 4, 0>>, <<0, 0, 5>> >>,
              << <<-3, 0, 0>>, <<0, 4, 0>>, <<0, 0, 4>> >>,
              << <<6, 0, 0>>, <<3, 6, 0>>, <<0, 0, 6>> >>,
              << <<4, 0, 0>>, <<0, 4, 0>>, <<2, 2, 4>> >> }

GeoInit ==
  /\ nranks = 1
  /\ pos = <<>>
  /\ Box = ZeroBox
  /\ cfg = [qvalue |-> QValues(HardNumq), serial |-> FALSE, bessel |-> FALSE,
            force_bessel |-> FALSE, gpu |-> FALSE, nopbc |-> FALSE]
  /\ status = "ok"
  /\ obj = [r \in Ranks |-> SAXS(cfg, 0)]
  /\ pc = [r \in Ranks |-> "idle"]
  /\ sum = [r \in Ranks |-> ZeroSum]
  /\ deriv = [r \in Ranks |-> ZeroArr(0)]
  /\ comp = [r \in Ranks |-> NoComp(Len(cfg.qvalue))]
  /\ loc = [r \in Ranks |-> NoLoc]
  /\ started = FALSE
  /\ sel = NoSel
  /\ \E a \in GeoOrigins, b \in GeoPoints, B \in GeoBoxes :
       geo = [NoGeo EXCEPT !.atom_coord1 = a, !.atom_coord2 = b, !.Box = B]

\* the calls getDeltaPeriodic(atom_coord1, atom_coord2) and
\* getDeltaPeriodic(atom_coord2, atom_coord1) with getPbc().getBox() = geo.Box,
\* as the loop of calculate_cpu makes them for the pairs (i, j) and (j, i)
GeoCall ==
  /\ ~geo.called
  /\ geo' = [geo EXCEPT !.called = TRUE,
                        !.diff = getDeltaPeriodic(geo.atom_coord1, geo.atom_coord2, geo.Box),
                        !.back = getDeltaPeriodic(geo.atom_coord2, geo.atom_coord1, geo.Box)]
  /\ UNCHANGED <<nranks, pos, Box, cfg, status, obj, pc, sum, deriv, comp, loc, started, sel>>

GeoNext == GeoCall

GeoSpec == GeoInit /\ [][GeoNext]_vars

\* ------------------------------------------------------- the constructor
\* CtorSpec runs the constructor once on a keyword list: any QVALUE1.. of up
\* to MaxQ values, zero and negative ones included, with any flags.
NoObj == [q_list |-> <<>>, bessel |-> FALSE, FF_value |-> <<>>, FFf_value |-> <<>>]

QLists == UNION { [1 .. n -> (-1) .. MaxQValue] : n \in 1 .. MaxQ }

CtorConfigs ==
  [ qvalue : QLists, serial : BOOLEAN, bessel : BOOLEAN, force_bessel : BOOLEAN,
    gpu : BOOLEAN, nopbc : BOOLEAN ]

CtorInit ==
  /\ nranks = 1
  /\ pos = <<>>
  /\ Box = ZeroBox
  /\ cfg \in CtorConfigs
  /\ status = "unbuilt"
  /\ obj = [r \in Ranks |-> NoObj]
  /\ pc = [r \in Ranks |-> "idle"]
  /\ sum = [r \in Ranks |-> ZeroSum]
  /\ deriv = [r \in Ranks |-> ZeroArr(0)]
  /\ comp = [r \in Ranks |-> NoComp(0)]
  /\ loc = [r \in Ranks |-> NoLoc]
  /\ started = FALSE
  /\ sel = NoSel
  /\ geo = NoGeo

\* SAXS::SAXS(const ActionOptions&ao): error() ends the setup, else the
\* members are set and a component q_k is added for every QVALUE
Construct ==
  /\ status = "unbuilt"
  /\ IF CtorError(cfg)
     THEN /\ status' = "error"
          /\ UNCHANGED <<obj, comp>>
     ELSE /\ status' = "ok"
          /\ obj' = [r \in Ranks |-> SAXS(cfg, natoms)]
          /\ comp' = [r \in Ranks |-> NoComp(Len(cfg.qvalue))]
  /\ UNCHANGED <<nranks, pos, Box, cfg, pc, sum, deriv, loc, started, sel, geo>>

CtorNext == Construct

CtorSpec == CtorInit /\ [][CtorNext]_vars

Next ==
  \/ Calculate
  \/ \E r \in Ranks : CpuLocal(r)
  \/ AllReduce
  \/ \E r \in Ranks : CpuPublish(r)
  \/ \E r \in Ranks : GpuLocal(r)
  \/ Bcast
  \/ \E r \in Ranks : GpuPublish(r)

Spec == Init /\ [][Next]_vars

\* ------------------------------------------------------------- the results
\* rank r has returned from calculate()
Done(r) == started /\ pc[r] = "idle"

\* rank r has returned from a calculate() that took the exact loops for every
\* vector
ExactRun(r) == Done(r) /\ ~cfg.gpu /\ loc[r].direct /\ loc[r].algorithm = -1

\* sort_coordinates as calculate_cpu calls it on the frame p
CpuSorted(r, p) == sort_coordinates(p, obj[r].FF_value, HardNumq, ZCut, 0)

\* sum[k] of the exact loops after the comm.Sum, on the frame p
Intensity(r, p, k) ==
  IF cfg.serial THEN LocalSum(CpuSorted(r, p), Box, k, 0, 1)
  ELSE FoldNum([q \in Ranks |-> LocalSum(CpuSorted(r, p), Box, k, q, nranks)], Ranks)

\* ------------------------------------------------------------------ claims
\* C1: on the exact path with SERIAL unset, the intensity and the derivatives
\* after the all-reduce are those of a single rank, for every number of ranks:
\* every ordered pair (i, j) of the active atoms is accumulated exactly once.
C1_RankIndependent ==
  \A r \in Ranks :
    (ExactRun(r) /\ ~cfg.serial) =>
      \A k \in 0 .. (HardNumq - 1) :
        /\ comp[r][k].val = LocalSum(CpuSorted(r, pos), Box, k, 0, 1)
        /\ \A a \in 0 .. (natoms - 1) :
             deriv[r][k * natoms + a] = LocalDeriv(CpuSorted(r, pos), Box, k, a, 0, 1)

\* C2: after setup_midl the truncation order trunc[k] of every scattering
\* vector lies in [10, 99], whatever the extent of the bounding box.
C2_TruncInRange ==
  sel.last.ran =>
    \A k \in 1 .. Len(sel.last.trunc) :
      TruncFloor <= sel.last.trunc[k] /\ sel.last.trunc[k] <= TruncCeil

\* C3, as the code has it: with FORCE_BESSEL off, when setup_midl runs, the
\* crossover index is the largest k for which 4*trunc[k] is smaller than the
\* integer part of sqrt(2*atomCount) (-1 when there is none); the vectors of
\* index <= that k go to the multipole path, the others to the exact path.
C3_Crossover ==
  (sel.last.ran /\ ~sel.force_bessel) =>
    LET below(k) == 4 * sel.last.trunc[k + 1] < ISqrt(2 * sel.size)
        upto     == {k \in 0 .. (HardNumq - 1) :
                       \E m \in k .. (HardNumq - 1) : below(m)}
    IN /\ \A k \in 0 .. (HardNumq - 1) : k <= sel.last.algorithm <=> k \in upto
       /\ sel.last.multipole = upto
       /\ sel.last.exact = (0 .. (HardNumq - 1)) \ upto

\* C3, witness: setup_midl ran with FORCE_BESSEL off and chose the crossover
\* index 0, so vector 0 went to the multipole path and vector 1 to the exact path
C3_Witness ==
  /\ sel.last.ran
  /\ ~sel.force_bessel
  /\ sel.last.algorithm = 0
  /\ sel.last.multipole = {0}
  /\ sel.last.exact = {1}

\* C3, as the specification words it: with FORCE_BESSEL off the crossover index
\* is the largest k for which 4*trunc[k] is smaller than sqrt(2*atomCount);
\* the vectors of index <= that k go to the multipole path, the others to the
\* exact path.
C3_CrossoverReal ==
  (sel.last.ran /\ ~sel.force_bessel) =>
    LET below(k) == 16 * sel.last.trunc[k + 1] * sel.last.trunc[k + 1] < 2 * sel.size
        upto     == {k \in 0 .. (HardNumq - 1) :
                       \E m \in k .. (HardNumq - 1) : below(m)}
    IN /\ sel.last.multipole = upto
       /\ sel.last.exact = (0 .. (HardNumq - 1)) \ upto

\* C4: the exact/multipole assignment of an evaluation is a function of its
\* truncation table and of the atom count only: an evaluation with the table of
\* the object's first evaluation (the atom count is the object's) makes the
\* assignment the first evaluation made, whatever came in between.
C4_SameInputsSameAssignment ==
  (sel.evaluated /\ sel.last.trunc = sel.first.trunc) =>
    /\ sel.last.multipole = sel.first.multipole
    /\ sel.last.exact = sel.first.exact

\* C5: after every evaluation each configured scattering vector k (one per
\* QVALUE keyword) has its component q_k set to the intensity computed for it
\* in that evaluation.
C5_EveryComponentSet ==
  \A r \in Ranks :
    Done(r) =>
      \A k \in DOMAIN comp[r] :
        /\ k < HardNumq
        /\ comp[r][k].fresh
        /\ comp[r][k].val = sum[r][k + 1]

\* C6: after every calculate() call q_list has the length, the values and the
\* order the constructor gave it.
C6_QListFixed ==
  \A r \in Ranks : Done(r) => obj[r].q_list = CtorQList(cfg)

\* C7: the amplitude table built by the constructor (FF_value, FFf_value with
\* GPU) has the same rows, row lengths and entries after calculate() as before.
C7_TableFixed ==
  \A r \in Ranks :
    Done(r) => /\ obj[r].FF_value = SAXS(cfg, natoms).FF_value
               /\ obj[r].FFf_value = SAXS(cfg, natoms).FFf_value

\* C8: after an exact-path evaluation, for each scattering vector k the sum
\* over all atoms of the derivative vectors deriv[k][i] is the zero vector.
C8_DerivSumsToZero ==
  \A r \in Ranks :
    ExactRun(r) =>
      \A k \in 0 .. (HardNumq - 1) :
        FoldVec([a \in 0 .. (natoms - 1) |-> deriv[r][k * natoms + a]],
                0 .. (natoms - 1)) = Vec(Zero3)

\* C9: for a single atom of amplitude a, at any position, the exact path
\* yields the intensity a*a (WDen*WDen*a*a in the units of sum) and a zero
\* derivative for that atom.
C9_SingleAtom ==
  \A r \in Ranks :
    (ExactRun(r) /\ natoms = 1) =>
      \A k \in 0 .. (HardNumq - 1) :
        /\ comp[r][k].val = Num(WDen * WDen * FF_tmp(k, 0) * FF_tmp(k, 0))
        /\ deriv[r][k] = Vec(Zero3)

\* C10: without periodicity (NOPBC) the exact-path intensity of every
\* scattering vector is the same before and after one common translation is
\* added to all atom positions.
C10_TranslationInvariant ==
  \A r \in Ranks :
    (ExactRun(r) /\ cfg.nopbc) =>
      \A t \in { <<1, 0, 0>>, <<0, 0, 1>>, <<0, 0, 23>> }, k \in 0 .. (HardNumq - 1) :
        comp[r][k].val = Intensity(r, [i \in 1 .. natoms |-> VAdd(pos[i], t)], k)

\* C11: with FORCE_BESSEL off, when no scattering vector satisfies the
\* crossover condition of the evaluation, the multipole path computes no vector
\* and the exact path computes every vector.
C11_NoCrossoverAllExact ==
  (sel.evaluated /\ ~sel.force_bessel
     /\ \A k \in 1 .. HardNumq : ~(4 * sel.last.trunc[k] < ISqrt(2 * sel.size))) =>
    /\ sel.last.multipole = {}
    /\ sel.last.exact = 0 .. (HardNumq - 1)

\* C11, witness: setup_midl ran with FORCE_BESSEL off, no vector satisfied the
\* condition, and the evaluation sent every vector to the exact path
C11_Witness ==
  /\ sel.last.ran
  /\ ~sel.force_bessel
  /\ \A k \in 1 .. HardNumq : ~(4 * sel.last.trunc[k] < ISqrt(2 * sel.size))
  /\ sel.last.algorithm = -1
  /\ sel.last.exact = 0 .. (HardNumq - 1)

\* C12: with a singular or zero box (a zero diagonal entry) getDeltaPeriodic
\* returns the raw difference atom_coord2 - atom_coord1, with no non-finite
\* component.
C12_SingularBoxNoReduction ==
  (geo.called /\ Singular(geo.Box)) =>
    geo.diff = VSub(geo.atom_coord2, geo.atom_coord1)

\* the periodic images diff + a*Box0 + b*Box1 + c*Box2 of a displacement
Images(diff, B) ==
  { VAdd(diff, VAdd(VScale(a, B[1]), VAdd(VScale(b, B[2]), VScale(c, B[3])))) :
      a \in -ImgRange .. ImgRange, b \in -ImgRange .. ImgRange, c \in -ImgRange .. ImgRange }

\* C13: with NOPBC the displacement used for every atom pair of the distance
\* calculation is the raw coordinate difference.
C13_NoPbcRawDifference ==
  \A r \in Ranks :
    (ExactRun(r) /\ cfg.nopbc) =>
      \A p \in Pairs(MyRank(r), MyStride, Len(CpuSorted(r, pos).sorted_atom)) :
        CDist(CpuSorted(r, pos), Box, p[1], p[2])
          = VSub(CpuSorted(r, pos).sorted_posi[p[2] + 1],
                 CpuSorted(r, pos).sorted_posi[p[1] + 1])

\* C14: for any two positions and any non-singular box, the displacement
\* getDeltaPeriodic returns is one of smallest magnitude among the periodic
\* images diff + a*Box0 + b*Box1 + c*Box2 of the raw difference.
C14_MinimumImage ==
  (geo.called /\ ~Singular(geo.Box)) =>
    \A v \in Images(VSub(geo.atom_coord2, geo.atom_coord1), geo.Box) :
      Dot(geo.diff, geo.diff) <= Dot(v, v)


\* C15: after a GPU evaluation every rank holds the intensities and the
\* derivative buffer of rank 0, and a rank other than 0 that publishes uses the
\* atom filter of rank 0 (its size and its sorted_atom), which only rank 0
\* computes: it has to have received them.
C15_GpuRanksAgree ==
  cfg.gpu =>
    \A r \in Ranks :
      /\ pc[r] = "publish" =>
           /\ loc[r].size = loc[0].size
           /\ loc[r].sorted_atom = loc[0].sorted_atom
      /\ (Done(r) /\ Done(0)) =>
           /\ comp[r] = comp[0]
           /\ deriv[r] = deriv[0]

\* the derivative the engine computes for the atom a of vector k on the frame
\* the rank r has evaluated: position p of the filter in the dense arrays of
\* calculate_gpu, the sum over the ranks of the exact loops in calculate_cpu
Computed(r, k, sa, p) ==
  IF cfg.gpu THEN DenseVec(k * Len(sa) + (p - 1))
  ELSE IF cfg.serial THEN LocalDeriv(CpuSorted(r, pos), Box, k, sa[p], 0, 1)
  ELSE FoldVec([q \in Ranks |->
                 LocalDeriv(CpuSorted(r, pos), Box, k, sa[p], q, nranks)], Ranks)

\* C16: with the pre-filter (calculate_gpu, and the exact loops of
\* calculate_cpu) and the derivative buffer of numq vectors, the derivative
\* computed for the filtered position p of vector k is at slot
\* k*natom + sorted_atom[p] when the rank returns, and the slot of an atom
\* outside the filtered subset holds zero.
C16_FilteredSlots ==
  \A r \in Ranks :
    (Done(r) /\ Len(cfg.qvalue) = HardNumq /\ (cfg.gpu \/ ExactRun(r))) =>
      LET sa == SortedAtom(pos, IF cfg.gpu THEN ZCutGpu ELSE ZCut) IN
      \A k \in 0 .. (HardNumq - 1) :
        /\ \A p \in 1 .. Len(sa) :
             deriv[r][k * natoms + sa[p]] = Computed(r, k, sa, p)
        /\ \A a \in 0 .. (natoms - 1) :
             (\A p \in 1 .. Len(sa) : sa[p] # a) =>
               deriv[r][k * natoms + a] = Vec(Zero3)

\* C17: the dense engine of calculate_gpu operates on the same atoms as the
\* exact engine of calculate_cpu: on every frame the atoms rank 0 keeps in
\* calculate_gpu are those sort_coordinates keeps in calculate_cpu.
C17_GpuSameAtomsAsCpu ==
  (cfg.gpu /\ Done(0)) => loc[0].sorted_atom = SortedAtom(pos, ZCut)

\* rank r has run the exact loops of calculate_cpu in this evaluation
ExactLoopsRun(r) ==
  started /\ ~cfg.gpu /\ pc[r] \in {"reduce", "publish", "idle"} /\ loc[r].direct

\* C18: no two iterations of a parallel loop of the exact path write the same
\* cell of a shared array: the cells of c_dist and m_dist written by two
\* iterations i of the first loop are disjoint, and so are the cells of deriv
\* and of sum written by two iterations k of the second loop.
C18_DisjointWrites ==
  \A r \in Ranks :
    ExactLoopsRun(r) =>
      LET sa     == SortedAtom(pos, ZCut)
          size   == Len(sa)
          rank   == MyRank(r)
          stride == MyStride
          I      == Rows(rank, stride, size)
          K      == (loc[r].algorithm + 1) .. (HardNumq - 1)
      IN /\ \A i \in I, i2 \in I :
              i # i2 => CDistWrites(i, rank, size) \cap CDistWrites(i2, rank, size) = {}
         /\ \A k \in K, k2 \in K :
              k # k2 =>
                /\ DerivWrites(k, sa, rank, stride, natoms)
                     \cap DerivWrites(k2, sa, rank, stride, natoms) = {}
                /\ SumWrites(k, sa, rank, stride) \cap SumWrites(k2, sa, rank, stride) = {}

\* C18 witness: a rank has run both parallel loops with two iterations each,
\* every iteration writing at least two cells
C18_Witness ==
  \E r \in Ranks :
    /\ ExactLoopsRun(r)
    /\ loc[r].algorithm = -1
    /\ LET sa == SortedAtom(pos, ZCut) IN
       /\ Cardinality(Rows(MyRank(r), MyStride, Len(sa))) >= 2
       /\ \A i \in Rows(MyRank(r), MyStride, Len(sa)) :
            Cardinality(CDistWrites(i, MyRank(r), Len(sa))) >= 2
       /\ \A k \in 0 .. (HardNumq - 1) :
            Cardinality(DerivWrites(k, sa, MyRank(r), MyStride, natoms)) >= 2

\* C19: the constructor ends in a fatal error whenever a QVALUE is zero or
\* negative, and no object that can be evaluated holds such a value.
C19_NonPositiveQRejected ==
  status # "unbuilt" =>
    /\ (\E i \in 1 .. Len(cfg.qvalue) : cfg.qvalue[i] <= 0) => status = "error"
    /\ status = "ok" =>
         \A r \in Ranks : \A i \in 1 .. Len(obj[r].q_list) : obj[r].q_list[i] > 0

\* C19 witness: the constructor has ended in an error on a list whose only
\* fault is a zero or negative value
C19_Witness ==
  /\ status = "error"
  /\ \E i \in 1 .. Len(cfg.qvalue) : cfg.qvalue[i] <= 0
  /\ \A i \in 2 .. Len(cfg.qvalue) : cfg.qvalue[i] >= cfg.qvalue[i - 1]
  /\ ~cfg.gpu

\* C20: the constructor ends in a fatal error whenever the QVALUE list is not
\* ascending (some q_list[i] < q_list[i-1]), whatever the mode.
C20_DescendingRejected ==
  (status # "unbuilt"
    /\ \E i \in 2 .. Len(cfg.qvalue) : cfg.qvalue[i] < cfg.qvalue[i - 1])
  => status = "error"

\* C20 witness: the constructor has ended in an error on a list of positive
\* values whose only fault is the order, with BESSEL, FORCE_BESSEL and GPU
\* unset
C20_Witness ==
  /\ status = "error"
  /\ \E i \in 2 .. Len(cfg.qvalue) : cfg.qvalue[i] < cfg.qvalue[i - 1]
  /\ \A i \in 1 .. Len(cfg.qvalue) : cfg.qvalue[i] > 0
  /\ ~cfg.bessel /\ ~cfg.force_bessel /\ ~cfg.gpu

\* C21: the constructor ends in a fatal error whenever GPU is set together
\* with BESSEL or with FORCE_BESSEL, and no constructed object has gpu set and
\* its member bessel (or the keyword FORCE_BESSEL) set.
C21_GpuBesselRejected ==
  status # "unbuilt" =>
    /\ (cfg.gpu /\ (cfg.bessel \/ cfg.force_bessel)) => status = "error"
    /\ status = "ok" =>
         \A r \in Ranks : ~(cfg.gpu /\ (obj[r].bessel \/ cfg.force_bessel))

\* C21 witness: the constructor has ended in an error on a valid QVALUE list
\* with GPU and FORCE_BESSEL set and BESSEL unset
C21_Witness ==
  /\ status = "error"
  /\ cfg.gpu /\ cfg.force_bessel /\ ~cfg.bessel
  /\ \A i \in 1 .. Len(cfg.qvalue) : cfg.qvalue[i] > 0
  /\ \A i \in 2 .. Len(cfg.qvalue) : cfg.qvalue[i] >= cfg.qvalue[i - 1]

\* C22: for the extent maxdist of a frame, the truncation order setup_midl
\* computes is non-decreasing along the ascending q_list:
\* trunc[k] <= trunc[k+1] for every k.
C22_TruncNonDecreasing ==
  (sel.evaluated /\ sel.last.ran) =>
    \A k \in 1 .. (Len(sel.last.trunc) - 1) :
      CpuQList[k] <= CpuQList[k + 1] => sel.last.trunc[k] <= sel.last.trunc[k + 1]

\* C22 witness: setup_midl has filled the table of an ascending q_list with
\* two orders above the floor, the second larger than the first
C22_Witness ==
  /\ sel.evaluated /\ sel.last.ran
  /\ CpuQList[1] < CpuQList[2]
  /\ TruncFloor < sel.last.trunc[1]
  /\ sel.last.trunc[1] < sel.last.trunc[2]

\* C23: on the exact path (BESSEL and GPU unset) an empty atom set is not an
\* error: no rank ends the evaluation abnormally, and a rank that has returned
\* has set every intensity to 0 and written no derivative entry.
C23_EmptyAtomSet ==
  (started /\ natoms = 0 /\ ~cfg.gpu /\ ~cfg.bessel /\ ~cfg.force_bessel) =>
    \A r \in Ranks :
      /\ pc[r] # "aborted"
      /\ Done(r) =>
           /\ \A k \in DOMAIN comp[r] : comp[r][k].val = Num(0)
           /\ \A idx \in DOMAIN deriv[r] : deriv[r][idx] = Vec(Zero3)

\* rank r has called setup_midl in this evaluation, on a frame with atoms
SetupMidlRun(r) ==
  /\ started /\ ~cfg.gpu /\ natoms > 0
  /\ pc[r] \in {"reduce", "publish", "idle"}
  /\ loc[r].trunc # <<>>

\* C24: the truncation table and the crossover index setup_midl computes are
\* those of a single execution unit looking at every atom, on every rank, for
\* every number of ranks and with SERIAL set or unset; two ranks of one
\* evaluation hold the same table and the same index.
C24_SelectorRankIndependent ==
  \A r \in Ranks :
    SetupMidlRun(r) =>
      LET one == TruncTable(MaxDistOf(pos), CpuQList) IN
      /\ loc[r].trunc = one
      /\ loc[r].algorithm = setup_midl(one, natoms, cfg.force_bessel)
      /\ \A r2 \in Ranks :
           SetupMidlRun(r2) =>
             loc[r2].trunc = loc[r].trunc /\ loc[r2].algorithm = loc[r].algorithm

\* C24 witness: two ranks, SERIAL unset, have both called setup_midl on a
\* frame of two atoms at different places
C24_Witness ==
  /\ nranks = 2 /\ ~cfg.serial
  /\ natoms = 2 /\ pos[1] # pos[2]
  /\ \A r \in Ranks : SetupMidlRun(r)

\* C25: when one evaluation sends vectors to both paths, the scaling by
\* 8*pi*|q_k| is applied to the derivative entry of every atom of every
\* multipole-path vector k (k <= crossover index) and to no other entry, and
\* the intensities scaled by 4*pi are those of the multipole-path vectors.
C25_ScalingOnMultipoleEntries ==
  (sel.evaluated /\ sel.last.multipole # {} /\ sel.last.exact # {}) =>
    /\ DOMAIN sel.scaled = sel.last.multipole
    /\ \A k \in sel.last.multipole :
         sel.scaled[k] = [from |-> k * sel.size, count |-> sel.size]
    /\ sel.sumscaled = sel.last.multipole

\* C26: on the non-GPU path with SERIAL unset, sum and deriv are reduced
\* across the ranks exactly once in an evaluation: not before every rank has
\* finished its loops, and before a rank sets an output component, so that a
\* component set in this evaluation holds a fully reduced value.
C26_SingleReduction ==
  (started /\ ~cfg.gpu /\ ~cfg.serial) =>
    \A r \in Ranks :
      /\ loc[r].reduced <= 1
      /\ pc[r] \in {"local", "reduce"} => loc[r].reduced = 0
      /\ pc[r] \in {"publish", "idle"} => loc[r].reduced = 1
      /\ (\E k \in DOMAIN comp[r] : comp[r][k].fresh) =>
           /\ loc[r].reduced = 1
           /\ \A q \in Ranks : pc[q] # "local"

\* C26 witness: with two ranks and SERIAL unset a rank has set a component
\* after the reduction
C26_Witness ==
  /\ started /\ ~cfg.gpu /\ ~cfg.serial /\ nranks = 2
  /\ \E r \in Ranks :
       /\ loc[r].reduced = 1
       /\ \E k \in DOMAIN comp[r] : comp[r][k].fresh

\* C27: in every evaluation, for every number of QVALUE keywords and every
\* atom count, a rank that enters calculate_cpu or calculate_gpu reads the
\* amplitude table and writes the derivative buffer of calculate() inside
\* their allocated ranges only.
C27_IndicesInRange ==
  \A r \in Ranks :
    (started /\ pc[r] = "local") =>
      IF cfg.gpu
      THEN ~(r = 0 /\ SortReadsOutside(pos, obj[r].FFf_value, HardNumq, ZCutGpu))
      ELSE ~CpuIndexUb(r)

\* C28: for every vector k the multipole engine computes, every degree
\* n < trunc[k] and every atom i, the entries of the basis-function array it
\* touches (p2*i + n*n + m and the mirrored entry) lie in the block
\* [p2*i, p2*(i+1)) of atom i; equivalently trunc[k]*trunc[k] <= p2.
C28_BasisIndexInBlock ==
  (sel.evaluated /\ sel.last.ran) =>
    \A k \in sel.last.multipole :
      /\ sel.last.trunc[k + 1] * sel.last.trunc[k + 1] <= sel.last.p2
      /\ \A i \in {0, 1}, n \in 0 .. (sel.last.trunc[k + 1] - 1) :
           \A x \in BasisSlots(sel.last.p2, i, n) :
             sel.last.p2 * i <= x /\ x < sel.last.p2 * (i + 1)

\* C29: what sort_coordinates returns to calculate_cpu: sorted_atom holds
\* exactly the atoms with z below z_max, strictly increasing; sorted_posi[p] is
\* the position of atom sorted_atom[p]; FF_value_sorted[k][p] is the amplitude
\* FF_value[k][sorted_atom[p]] of that atom, for every p and every one of the
\* numq vectors k; the three outputs have the same length.
C29_SortCoordinates ==
  \A r \in Ranks :
    (started /\ pc[r] = "local" /\ ~cfg.gpu /\ CpuDirect(r)) =>
      \A garbage \in Garbage :
        LET S  == sort_coordinates(pos, obj[r].FF_value, HardNumq, ZCut, garbage)
            sa == S.sorted_atom
        IN /\ {sa[p] : p \in 1 .. Len(sa)} = {a \in 0 .. (natoms - 1) : pos[a + 1][3] < ZCut}
           /\ \A p \in 1 .. (Len(sa) - 1) : sa[p] < sa[p + 1]
           /\ Len(S.sorted_posi) = Len(sa)
           /\ \A p \in 1 .. Len(sa) : S.sorted_posi[p] = pos[sa[p] + 1]
           /\ \A k \in 1 .. HardNumq :
                /\ Len(S.FF_value_sorted[k]) = Len(sa)
                /\ \A p \in 1 .. Len(sa) :
                     /\ k <= Len(obj[r].FF_value)
                     /\ S.FF_value_sorted[k][p] = obj[r].FF_value[k][sa[p] + 1]

\* C30, as the code has it: for every pair of positions a, b and every box
\* without a zero diagonal entry, getDeltaPeriodic(a,b) = -getDeltaPeriodic(b,a)
\* unless one of the quotients diff[c]/Box[c][c]+0.5 is an integer, that is
\* unless a component that is reduced is exactly half a box length (plus a
\* multiple of it).
C30_AntisymmetricOffHalfBox ==
  (geo.called /\ ~Singular(geo.Box)
     /\ ~Ties(VSub(geo.atom_coord2, geo.atom_coord1), geo.Box)) =>
    geo.back = VScale(-1, geo.diff)

\* C30 witness: both calls were made on a non-singular box, no quotient was an
\* integer, and the displacement returned is neither zero nor the raw
\* difference
C30_Witness ==
  /\ geo.called /\ ~Singular(geo.Box)
  /\ ~Ties(VSub(geo.atom_coord2, geo.atom_coord1), geo.Box)
  /\ geo.diff # Zero3
  /\ geo.diff # VSub(geo.atom_coord2, geo.atom_coord1)

\* C30, as claimed: for every pair of positions a, b and every non-singular
\* box, getDeltaPeriodic(a,b) = -getDeltaPeriodic(b,a), also when a component
\* of the raw difference is exactly half a box length.
C30_Antisymmetric ==
  (geo.called /\ ~Singular(geo.Box)) => geo.back = VScale(-1, geo.diff)

====
